---------------------------- MODULE Spec2Model ----------------------------
(***************************************************************************)
(* Retry escalation and dead-lettering of examples/retry: the consumer's   *)
(* callback with its three guarded helpers, the producer, and the broker   *)
(* topology they declare (origin exchange direct_logs, retry exchange      *)
(* direct_logs_retry with TTL holding queues, dead-letter exchange         *)
(* direct_logs_dlq with dead_letter_queue).                                *)
(***************************************************************************)
EXTENDS Integers, Sequences, FiniteSets, TLC

(* ------------------------------ constants ------------------------------ *)
MAX_RETRY_ATTEMPTS == 3
INITIAL_RETRY_DELAY == 1
BACKOFF_MULTIPLIER == 2

(* ------------------------------- bounds -------------------------------- *)
MaxProduced == 1      \* messages sent through producer.send_message
MaxForeign == 1       \* messages put on direct_logs by another publisher
MaxDeliveries == 5    \* deliveries handed to callback, all consumers together
MaxDrained == 2       \* records handed to the callback of monitor.py dlq
MaxClusterForeign == 1      \* messages put on cluster_exchange by another publisher
MaxClusterDeliveries == 3   \* deliveries handed to message_callback
MaxPublishFailures == 2     \* failed basic_publish calls for one message
MaxConnectFailures == 1     \* failed attempts of one ClusterProducer.connect
total == 3                  \* send_messages(total)

Consumers == {"c1", "c2"}
RoutingKeys == {"warning", "error"}

(* The routing keys each consumer instance is started with (sys.argv[1:]) *)
Subscription == [c \in Consumers |->
                   IF c = "c1" THEN {"warning", "error"} ELSE {"warning"}]

(* Message texts of the test scripts: what the producer is called with.    *)
(* The last one contains none of the keywords of process_message, as every *)
(* normal message.                                                         *)
Texts == {"temporary_error", "critical_error", "random_fail",
          "invalid json {broken"}

NoCount == -9         \* headers without x-retry-count
BadCount == -8        \* an x-retry-count header that int() rejects

(* The lowest x-retry-count a delivery of another publisher comes with *)
MinRetryCount == -1
NoQueue == [declared |-> FALSE]

RECURSIVE Pow(_, _)
Pow(b, n) == IF n = 0 THEN 1 ELSE b * Pow(b, n - 1)

(* A delay that grows by INITIAL_RETRY_DELAY at each attempt *)
Delay_linear(retry_count) == INITIAL_RETRY_DELAY * (retry_count + 1)

(* delay = INITIAL_RETRY_DELAY * (BACKOFF_MULTIPLIER ** retry_count) *)
(* int(delay); a negative retry_count makes delay a fraction.               *)
Delay(retry_count) ==
    IF retry_count >= 0
    THEN INITIAL_RETRY_DELAY * Pow(BACKOFF_MULTIPLIER, retry_count)
    ELSE INITIAL_RETRY_DELAY \div Pow(BACKOFF_MULTIPLIER, -retry_count)

(* 'x-message-ttl': int(delay * 1000) *)
TtlMillis(retry_count) ==
    IF retry_count >= 0
    THEN INITIAL_RETRY_DELAY * Pow(BACKOFF_MULTIPLIER, retry_count) * 1000
    ELSE (INITIAL_RETRY_DELAY * 1000) \div Pow(BACKOFF_MULTIPLIER, -retry_count)

(* The delay values a holding queue can be named after: int(delay) for    *)
(* every retry count a delivery can come with (the inspector's list goes   *)
(* one step beyond the ceiling).                                           *)
HoldingDelays == {Delay(n) : n \in MinRetryCount..MAX_RETRY_ATTEMPTS}

VARIABLES
    exchanges,     \* declared exchanges
    cstate,        \* consumer -> "new" | "consuming" | "failing" | "stopped"
    chanOpen,      \* consumer -> ch.is_open
    bound,         \* consumer -> routing keys its exclusive queue is bound under
    cqueue,        \* consumer -> its exclusive queue (FIFO, head is in flight)
    hconf,         \* delay -> arguments of retry_queue_<delay>s, or NoQueue
    rbind,         \* bindings of the retry exchange: <<delay, routing key>>
    holding,       \* delay -> contents of retry_queue_<delay>s
    dlqDeclared,   \* dead_letter_queue exists
    dlqBind,       \* routing keys dead_letter_queue is bound under
    dlq,           \* contents of dead_letter_queue
    produced,      \* number of producer.send_message calls
    foreign,       \* number of messages of other publishers
    sent,          \* id -> the message as first published, or NoMsg
    retryPublishes,\* id -> number of basic_publish to the retry exchange
    deliveries,    \* number of callback invocations so far
    last,          \* what the callback that has just returned did
    report,        \* what the last run of monitor.py list printed
    inflight,      \* deliveries the broker has sent to c1 and not seen acknowledged
    drain,         \* the session of monitor.py dlq and the records its callback was given
    cluster_queue, \* contents of cluster_queue, oldest first
    cluster_consumer, \* the ClusterConsumer: its connect, its deliveries
    cluster_producer  \* the ClusterProducer: its loop index, its publishes

(* The retried-delivery example (src/examples/retry) *)
retryVars == <<exchanges, cstate, chanOpen, bound, cqueue, hconf, rbind,
               holding, dlqDeclared, dlqBind, dlq, produced, foreign, sent,
               retryPublishes, deliveries, last, report, inflight, drain>>

(* The cluster example (src/cluster) *)
clusterVars == <<cluster_queue, cluster_consumer, cluster_producer>>

vars == <<retryVars, clusterVars>>

Ids == 1..(MaxProduced + MaxForeign)

NoLast == [valid |-> FALSE]
NoReport == [valid |-> FALSE]
NoFlight == [delivered |-> 0, handling |-> FALSE]
NoDrain == [state |-> "off", handled |-> <<>>]
NoConnect == [valid |-> FALSE]
NoMsg == [by |-> "nobody"]

(* ------------------------------ messages ------------------------------- *)

(* json.dumps(message_body) of producer.send_message: the text becomes the *)
(* 'content' field of a JSON object that also carries 'timestamp'.         *)
json_dumps(text) == [fmt |-> "json_object", content |-> text]

(* Deliveries that reach the consumer from publishers other than           *)
(* producer.py: a body, and the x-retry-count header it comes with.        *)
RawDeliveries ==
    { [body |-> [fmt |-> "malformed", content |-> "invalid json {broken"],
       count |-> NoCount],
      [body |-> [fmt |-> "malformed", content |-> "invalid json {broken"],
       count |-> MAX_RETRY_ATTEMPTS - 1],
      [body |-> [fmt |-> "bad_utf8", content |-> "none"], count |-> NoCount],
      [body |-> [fmt |-> "json_no_content", content |-> "none"],
       count |-> NoCount],
      [body |-> [fmt |-> "json_object", content |-> "<number>"],
       count |-> NoCount],
      [body |-> [fmt |-> "json_object", content |-> "critical_error"],
       count |-> MAX_RETRY_ATTEMPTS - 1],
      [body |-> [fmt |-> "json_object", content |-> "invalid json {broken"],
       count |-> BadCount] }

(* json.loads(body): the exception class it ends with, or "ok" *)
json_loads(body) ==
    CASE body.fmt = "malformed" -> "JSONDecodeError"
      [] body.fmt = "bad_utf8" -> "UnicodeDecodeError"
      [] OTHER -> "ok"

(* int(headers['x-retry-count']) raises ValueError *)
IntRaises(count) == count = BadCount

(* get_retry_count(headers) *)
get_retry_count(m) == IF m.count # NoCount THEN m.count ELSE 0

(* process_message whose first except clause is missing: no error is      *)
(* permanent, every exception returns False                                *)
process_message_all_transient(body, rnd) ==
    IF body.content \in {"<number>", "critical_error", "temporary_error"}
       \/ (body.content = "random_fail" /\ rnd)
    THEN [ret |-> "False", error |-> "any"]
    ELSE [ret |-> "True", error |-> "none"]

(* process_message that retries ConnectionError alone and re-raises every  *)
(* other exception                                                         *)
process_message_reraise(body, rnd) ==
    CASE body.content = "temporary_error" ->
            [ret |-> "False", error |-> "ConnectionError"]
      [] body.content = "<number>" ->
            [ret |-> "raise", error |-> "AttributeError"]
      [] body.content = "critical_error" ->
            [ret |-> "raise", error |-> "Critical error - should not retry"]
      [] body.content = "random_fail" /\ rnd ->
            [ret |-> "raise", error |-> "RuntimeError"]
      [] OTHER -> [ret |-> "True", error |-> "none"]

(* process_message(message_data): "True", "False", or "raise" (ValueError  *)
(* and TypeError are re-raised, every other exception returns False).      *)
(* rnd is random.random() < 0.5.                                           *)
process_message(body, rnd) ==
    LET raisedClass ==
            CASE body.content = "<number>" -> "AttributeError"
              [] body.content = "critical_error" -> "ValueError"
              [] body.content = "temporary_error" -> "ConnectionError"
              [] body.content = "random_fail" /\ rnd -> "RuntimeError"
              [] OTHER -> "none"
    IN  CASE raisedClass = "none" -> [ret |-> "True", error |-> "none"]
          [] raisedClass \in {"ValueError", "TypeError"} ->
                [ret |-> "raise", error |-> "Critical error - should not retry"]
          [] OTHER -> [ret |-> "False", error |-> raisedClass]

(* ------------------------- broker, step by step ------------------------ *)
(* A step state s carries the channel and the broker objects through one   *)
(* callback: ret is the value of the statement just executed ("ok",        *)
(* "True", "False" or "raise").                                            *)

(* The three guarded helpers of callback *)
Helpers == {"send_to_retry_queue", "send_to_dead_letter_queue", "safe_ack"}

Log(s, ev) == [s EXCEPT !.trace = Append(@, ev)]
Ret(s, v) == [s EXCEPT !.ret = v]

(* A broker operation that raises (it always does on a closed channel):    *)
(* the channel is closed by the error                                      *)
Raise(s) == [s EXCEPT !.open = FALSE, !.ret = "raise",
                      !.trace = Append(@, "raise")]

(* The value a helper returns to callback, kept under the helper's name *)
Returned(s, helper) == [s EXCEPT !.rets[helper] = s.ret]

(* Queues of the retry exchange a message published under rk is routed to *)
RetryTargets(bindings, rk) == {d \in HoldingDelays : <<d, rk>> \in bindings}


(* try: ... except Exception: return False  -- the wrapper of the three    *)
(* helpers: whatever the body raised, the helper returns False; a body     *)
(* that ran to its end returns True.                                       *)
CatchAll(s) == IF s.ret = "raise" THEN Ret(s, "False") ELSE Ret(s, "True")

(* Every broker call below is skipped when an earlier statement of the     *)
(* same try block has raised (s.ret = "raise").                            *)

(* exchange_declare(exchange=name, exchange_type='direct') *)
exchange_declare(s, name, fails) ==
    IF s.ret = "raise" THEN s
    ELSE IF fails \/ ~s.open THEN Raise(s)
    ELSE Log([s EXCEPT !.exchanges = @ \cup {name}], "exchange_declare")

(* queue_declare(queue=retry_queue_<delay>s, durable, arguments): creates  *)
(* the queue, is a no-op on equal arguments, and is refused by the broker  *)
(* (channel closed, exception) on different arguments.                     *)
queue_declare_holding(s, delay, args, fails) ==
    IF s.ret = "raise" THEN s
    ELSE IF fails \/ ~s.open THEN Raise(s)
    ELSE IF s.hconf[delay] # NoQueue /\ s.hconf[delay] # args
    THEN Raise(Log(s, "PRECONDITION_FAILED"))
    ELSE Log([s EXCEPT !.hconf[delay] = args], "retry.queue_declare")

(* queue_bind(exchange='direct_logs_retry', queue, routing_key) *)
queue_bind_holding(s, delay, rk, fails) ==
    IF s.ret = "raise" THEN s
    ELSE IF fails \/ ~s.open THEN Raise(s)
    ELSE Log([s EXCEPT !.rbind = @ \cup {<<delay, rk>>}], "retry.queue_bind")

(* basic_publish(exchange='direct_logs_retry', routing_key): a direct      *)
(* exchange copies the message into every queue bound under the key; the   *)
(* copy stays in retry_queue_<d>s for the x-message-ttl of that queue.     *)
basic_publish_retry(s, msg, fails) ==
    IF s.ret = "raise" THEN s
    ELSE IF fails \/ ~s.open THEN Raise(s)
    ELSE Log([s EXCEPT
                !.holding = [d \in HoldingDelays |->
                               IF d \in RetryTargets(s.rbind, msg.rk)
                               THEN Append(@[d], [msg EXCEPT !.due =
                                              s.hconf[d].ttl \div 1000])
                               ELSE @[d]],
                !.rpub[msg.id] = @ + 1,
                !.routed = RetryTargets(s.rbind, msg.rk)],
             "retry.basic_publish")

(* A retry publish that encodes the body once more (json.dumps(body)) *)
RetryMessage_reencoded(m, retry_count) ==
    [id |-> m.id, rk |-> m.rk,
     body |-> [fmt |-> "json_string", content |-> m.body.content],
     count |-> retry_count + 1,
     okey |-> m.rk, delay |-> Delay(retry_count), via |-> 0, due |-> 0]

(* The message send_to_retry_queue publishes: body unchanged, new headers *)
RetryMessage(m, retry_count) ==
    [id |-> m.id, rk |-> m.rk, body |-> m.body, count |-> retry_count + 1,
     okey |-> m.rk, delay |-> Delay(retry_count), via |-> 0, due |-> 0]

(* arguments that dead-letter every holding queue under one fixed key *)
HoldingArgs_fixed_key(m, retry_count) ==
    [declared |-> TRUE, ttl |-> TtlMillis(retry_count),
     dlx |-> "direct_logs", dlrk |-> "error"]

(* arguments of retry_queue_<delay>s *)
HoldingArgs(m, retry_count) ==
    [declared |-> TRUE, ttl |-> TtlMillis(retry_count),
     dlx |-> "direct_logs", dlrk |-> m.rk]

(* The try block of send_to_retry_queue after the is_open check *)
RetryBody(s, m, retry_count, fail) ==
    basic_publish_retry(
      queue_bind_holding(
        queue_declare_holding(
          exchange_declare(s, "direct_logs_retry",
                           fail = "retry.exchange_declare"),
          Delay(retry_count), HoldingArgs(m, retry_count),
          fail = "retry.queue_declare"),
        Delay(retry_count), m.rk, fail = "retry.queue_bind"),
      RetryMessage(m, retry_count), fail = "retry.basic_publish")

(* send_to_retry_queue without its ch.is_open check *)
send_to_retry_queue_unguarded(s0, m, retry_count, fail) ==
    Returned(CatchAll(RetryBody(Log(Ret(s0, "ok"), "send_to_retry_queue"), m,
                                retry_count, fail)),
             "send_to_retry_queue")

(* send_to_retry_queue(ch, method, properties, body, retry_count) *)
send_to_retry_queue(s0, m, retry_count, fail) ==
    Returned(
      IF ~s0.open
      THEN Ret(Log(s0, "send_to_retry_queue"), "False")
      ELSE CatchAll(RetryBody(Log(Ret(s0, "ok"), "send_to_retry_queue"), m,
                              retry_count, fail)),
      "send_to_retry_queue")

(* ch.basic_ack(delivery_tag=delivery_tag) *)
basic_ack(s, fails) ==
    IF fails \/ ~s.open THEN Raise(s)
    ELSE Log([s EXCEPT !.acks = @ + 1], "basic_ack")

(* safe_ack without its ch.is_open check *)
safe_ack_unguarded(s0, fail) ==
    Returned(CatchAll(basic_ack(Log(Ret(s0, "ok"), "safe_ack"),
                                fail = "basic_ack")),
             "safe_ack")

(* safe_ack(ch, delivery_tag) *)
safe_ack(s0, fail) ==
    Returned(
      IF s0.open
      THEN CatchAll(basic_ack(Log(Ret(s0, "ok"), "safe_ack"),
                              fail = "basic_ack"))
      ELSE Ret(Log(s0, "safe_ack"), "False"),
      "safe_ack")

(* queue_declare(queue='dead_letter_queue', durable=True) *)
queue_declare_dlq(s, fails) ==
    IF s.ret = "raise" THEN s
    ELSE IF fails \/ ~s.open THEN Raise(s)
    ELSE Log([s EXCEPT !.dlqDeclared = TRUE], "dlq.queue_declare")

(* queue_bind(exchange='direct_logs_dlq', queue='dead_letter_queue', rk) *)
queue_bind_dlq(s, rk, fails) ==
    IF s.ret = "raise" THEN s
    ELSE IF fails \/ ~s.open THEN Raise(s)
    ELSE Log([s EXCEPT !.dlqBind = @ \cup {rk}], "dlq.queue_bind")

(* A publish that raises after the broker has taken the message *)
basic_publish_dlq_then_raise(s, rec, fails) ==
    IF s.ret = "raise" THEN s
    ELSE IF ~s.open THEN Raise(s)
    ELSE IF fails THEN Raise([s EXCEPT !.dlq = Append(@, rec)])
    ELSE Log([s EXCEPT !.dlq = Append(@, rec)], "dlq.basic_publish")

(* basic_publish(exchange='direct_logs_dlq', routing_key) *)
basic_publish_dlq(s, rec, fails) ==
    IF s.ret = "raise" THEN s
    ELSE IF fails \/ ~s.open THEN Raise(s)
    ELSE Log([s EXCEPT !.dlq = IF rec.okey \in s.dlqBind /\ s.dlqDeclared
                                THEN Append(@, rec) ELSE @],
             "dlq.basic_publish")

(* The dead-letter record: body unchanged, x-death-reason,                 *)
(* x-original-routing-key, and x-retry-count when the delivery had one     *)
DeadLetterRecord(m, error_message) ==
    [id |-> m.id, body |-> m.body, reason |-> error_message, okey |-> m.rk,
     count |-> m.count]

(* A dead-letter record that does not copy x-retry-count *)
DeadLetterRecord_no_count(m, error_message) ==
    [id |-> m.id, body |-> m.body, reason |-> error_message, okey |-> m.rk,
     count |-> NoCount]

(* headers['x-retry-count'] = int(properties.headers['x-retry-count']): a  *)
(* ValueError here is an exception of the helper, the channel stays open   *)
dlq_headers(s, m) ==
    IF s.ret = "raise" THEN s
    ELSE IF IntRaises(m.count) THEN Ret(Log(s, "ValueError"), "raise")
    ELSE s

(* The try block of send_to_dead_letter_queue after the is_open check *)
DeadLetterBody(s, m, rec, fail) ==
    basic_publish_dlq(
      dlq_headers(
        queue_bind_dlq(
          queue_declare_dlq(
            exchange_declare(s, "direct_logs_dlq",
                             fail = "dlq.exchange_declare"),
            fail = "dlq.queue_declare"),
          m.rk, fail = "dlq.queue_bind"),
        m),
      rec, fail = "dlq.basic_publish")

(* send_to_dead_letter_queue that does not copy x-retry-count *)
send_to_dead_letter_queue_no_count(s0, m, error_message, fail) ==
    Returned(
      IF ~s0.open
      THEN Ret(Log([s0 EXCEPT !.reason = error_message],
                   "send_to_dead_letter_queue"), "False")
      ELSE CatchAll(DeadLetterBody(
                      Log([Ret(s0, "ok") EXCEPT !.reason = error_message],
                          "send_to_dead_letter_queue"),
                      m, DeadLetterRecord_no_count(m, error_message), fail)),
      "send_to_dead_letter_queue")

(* send_to_dead_letter_queue(ch, method, properties, body, error_message) *)
send_to_dead_letter_queue(s0, m, error_message, fail) ==
    Returned(
      IF ~s0.open
      THEN Ret(Log([s0 EXCEPT !.reason = error_message],
                   "send_to_dead_letter_queue"), "False")
      ELSE CatchAll(DeadLetterBody(
                      Log([Ret(s0, "ok") EXCEPT !.reason = error_message],
                          "send_to_dead_letter_queue"),
                      m, DeadLetterRecord(m, error_message), fail)),
      "send_to_dead_letter_queue")

(* ------------------------------ callback ------------------------------- *)

FailPoints == {"none", "channel_closed",
               "retry.exchange_declare", "retry.queue_declare",
               "retry.queue_bind", "retry.basic_publish",
               "dlq.exchange_declare", "dlq.queue_declare", "dlq.queue_bind",
               "dlq.basic_publish", "basic_ack"}

(* a ceiling check that lets retry_count = MAX_RETRY_ATTEMPTS through *)
ShouldRetry_inclusive(retry_count) == retry_count <= MAX_RETRY_ATTEMPTS

(* if retry_count < MAX_RETRY_ATTEMPTS *)
ShouldRetry(retry_count) == retry_count < MAX_RETRY_ATTEMPTS

Branch(s, name) == [s EXCEPT !.branch = name]

(* The next statement of a block: skipped when the previous one raised *)
ThenAck(s, fail) == IF s.ret = "raise" THEN s ELSE safe_ack(s, fail)

(* callback that ignores retry_success *)
Fallback_skipped(r, m, fail) == r

(* if not retry_success: send_to_dead_letter_queue(...) *)
Fallback(r, m, fail) ==
    IF r.ret = "False"
    THEN send_to_dead_letter_queue(Branch(r, "escalate_fallback"), m,
                                   "Retry queue failed after N attempts", fail)
    ELSE r

(* A routing that treats a True result of process_message as a failure *)
RouteResult_ignores_success(s, m, p, retry_count, fail) ==
    CASE p.ret = "raise" ->
           [Ret(Branch(s, "permanent"), "raise") EXCEPT !.error = p.error]
      [] OTHER ->
           IF ShouldRetry(retry_count)
           THEN ThenAck(Fallback(send_to_retry_queue(Branch(s, "escalate"), m,
                                                     retry_count, fail),
                                 m, fail),
                        fail)
           ELSE ThenAck(send_to_dead_letter_queue(
                          Branch(s, "ceiling"), m,
                          "Max retry attempts exceeded", fail),
                        fail)

(* The routing of callback on the result p of process_message *)
RouteResult(s, m, p, retry_count, fail) ==
    CASE p.ret = "raise" ->
           [Ret(Branch(s, "permanent"), "raise") EXCEPT !.error = p.error]
      [] p.ret = "True" -> safe_ack(Branch(s, "success"), fail)
      [] OTHER ->
           IF ShouldRetry(retry_count)
           THEN ThenAck(Fallback(send_to_retry_queue(Branch(s, "escalate"), m,
                                                     retry_count, fail),
                                 m, fail),
                        fail)
           ELSE ThenAck(send_to_dead_letter_queue(
                          Branch(s, "ceiling"), m,
                          "Max retry attempts exceeded", fail),
                        fail)

(* The inner try block of callback (process_message and the routing on its *)
(* result); ret = "raise" when an exception leaves the block.              *)
InnerTry(s, m, retry_count, rnd, fail) ==
    RouteResult(s, m, process_message(m.body, rnd), retry_count, fail)

(* An except clause that forgets the ack *)
Handler_no_ack(s, m, reason, fail) ==
    send_to_dead_letter_queue(s, m, reason, fail)

(* An except clause of callback: dead-letter with the reason, then ack *)
Handler(s, m, reason, fail) ==
    ThenAck(send_to_dead_letter_queue(s, m, reason, fail), fail)

(* except Exception as permanent_error, around the inner try *)
InnerExcept(s, m, fail) ==
    IF s.ret = "raise" THEN Handler(s, m, s.error, fail) ELSE s

(* except Exception as e, around the whole body of callback *)
OuterExcept(s, m, fail) ==
    IF s.ret = "raise" THEN Handler(s, m, "Unexpected error: ", fail) ELSE s

(* callback(ch, method, properties, body), from the step state s of its    *)
(* entry to the step state of its return.                                  *)
RunCallback(s, m, rnd, fail) ==
    CASE json_loads(m.body) = "JSONDecodeError" ->
           Handler(Branch(s, "parse_error"), m, "Invalid JSON: ", fail)
      [] \/ json_loads(m.body) # "ok"
         \/ IntRaises(m.count)
         \/ m.body.fmt = "json_no_content" ->
           Handler(Branch(s, "unexpected"), m, "Unexpected error: ", fail)
      [] OTHER ->
           OuterExcept(
             InnerExcept(InnerTry(s, m, get_retry_count(m), rnd, fail),
                         m, fail),
             m, fail)

(* ------------------------------- monitor ------------------------------ *)

(* queues_to_check of list_queues *)
queues_to_check == <<"dead_letter_queue", "retry_queue_1s", "retry_queue_2s",
                     "retry_queue_4s", "retry_queue_8s">>

(* f"retry_queue_{int(delay)}s" *)
retry_queue_name(delay) ==
    CASE delay = 0 -> "retry_queue_0s"
      [] delay = 1 -> "retry_queue_1s"
      [] delay = 2 -> "retry_queue_2s"
      [] delay = 4 -> "retry_queue_4s"
      [] delay = 8 -> "retry_queue_8s"

(* get_queue_info returns None, printed as N/A *)
None == -1

(* The delay a retry queue name stands for *)
DelayOf(queue_name) ==
    CHOOSE d \in HoldingDelays : retry_queue_name(d) = queue_name

(* The queue exists in broker view b (dlqDeclared, hconf, dlq, holding) *)
Exists(b, queue_name) ==
    IF queue_name = "dead_letter_queue" THEN b.dlqDeclared
    ELSE b.hconf[DelayOf(queue_name)] # NoQueue

(* message_count of the queue *)
Depth(b, queue_name) ==
    IF queue_name = "dead_letter_queue" THEN Len(b.dlq)
    ELSE Len(b.holding[DelayOf(queue_name)])

(* get_queue_info with passive=False: the declare creates a missing queue *)
get_queue_info_declaring(st, queue_name) ==
    IF ~st.open THEN [st EXCEPT !.rows = Append(@, None)]
    ELSE IF Exists(st.b, queue_name)
    THEN [st EXCEPT !.rows = Append(@, Depth(st.b, queue_name))]
    ELSE IF queue_name = "dead_letter_queue"
    THEN [st EXCEPT !.rows = Append(@, 0), !.b.dlqDeclared = TRUE]
    ELSE [st EXCEPT !.rows = Append(@, 0),
                    !.b.hconf[DelayOf(queue_name)] =
                        [declared |-> TRUE, ttl |-> 0, dlx |-> "none",
                         dlrk |-> "none"]]

(* get_queue_info(channel, queue_name): queue_declare(passive=True) on the *)
(* channel of the monitor. A queue that does not exist is a 404 on which   *)
(* the broker closes the channel; on a closed channel the declare raises.  *)
(* Every exception returns None.                                           *)
get_queue_info(st, queue_name) ==
    IF ~st.open THEN [st EXCEPT !.rows = Append(@, None)]
    ELSE IF Exists(st.b, queue_name)
    THEN [st EXCEPT !.rows = Append(@, Depth(st.b, queue_name))]
    ELSE [st EXCEPT !.rows = Append(@, None), !.open = FALSE]

(* for queue_name in queues_to_check: count = get_queue_info(...) *)
RECURSIVE ListFrom(_, _)
ListFrom(st, i) ==
    IF i > Len(queues_to_check) THEN st
    ELSE ListFrom(get_queue_info(st, queues_to_check[i]), i + 1)

(* ------------------------------- actions ------------------------------- *)

(* Queues of direct_logs a message published under rk is routed to *)
OriginTargets(rk) ==
    {c \in Consumers : cstate[c] \in {"consuming", "failing"} /\ rk \in bound[c]}

Route(q, targets, msg) ==
    [c \in Consumers |-> IF c \in targets THEN Append(q[c], msg) ELSE q[c]]

Init ==
    /\ exchanges = {"direct_logs", "direct_logs_retry", "direct_logs_dlq"}
    /\ cstate = [c \in Consumers |-> IF c = "c1" THEN "consuming" ELSE "new"]
    /\ chanOpen = [c \in Consumers |-> c = "c1"]
    /\ bound = [c \in Consumers |-> IF c = "c1" THEN Subscription[c] ELSE {}]
    /\ cqueue = [c \in Consumers |-> <<>>]
    /\ hconf = [d \in HoldingDelays |-> NoQueue]
    /\ rbind = {}
    /\ holding = [d \in HoldingDelays |-> <<>>]
    /\ dlqDeclared = FALSE
    /\ dlqBind = {}
    /\ dlq = <<>>
    /\ produced = 0
    /\ foreign = 0
    /\ sent = [i \in Ids |-> NoMsg]
    /\ retryPublishes = [i \in Ids |-> 0]
    /\ deliveries = 0
    /\ last = NoLast
    /\ report = NoReport
    /\ inflight = NoFlight
    /\ drain = NoDrain
    /\ cluster_queue = [messages |-> <<>>, foreign |-> 0]
    /\ cluster_consumer = [state |-> "new", connect |-> NoConnect,
                           settled |-> <<>>]
    /\ cluster_producer = [state |-> "new", i |-> 0, trace |-> <<>>,
                           returned |-> <<>>]

(* consumer.consume_messages(routing_keys), up to start_consuming *)
consume_messages(c, routing_keys) ==
    /\ cstate[c] = "new"
    /\ exchanges' = exchanges \cup
                      {"direct_logs", "direct_logs_retry", "direct_logs_dlq"}
    /\ cstate' = [cstate EXCEPT ![c] = "consuming"]
    /\ chanOpen' = [chanOpen EXCEPT ![c] = TRUE]
    /\ bound' = [bound EXCEPT ![c] = routing_keys]
    /\ last' = NoLast
    /\ UNCHANGED <<clusterVars, drain, inflight, report, cqueue, hconf, rbind, holding, dlqDeclared, dlqBind, dlq,
                   produced, foreign, sent, retryPublishes, deliveries>>

(* producer.send_message(routing_key, message) *)
send_message(routing_key, message) ==
    /\ produced < MaxProduced
    /\ LET msg == [id |-> produced + 1, rk |-> routing_key,
                   body |-> json_dumps(message), count |-> NoCount,
                   okey |-> "none", delay |-> 0, via |-> 0, due |-> 0]
       IN  /\ sent' = [sent EXCEPT ![msg.id] =
                                [msg |-> msg, by |-> "producer",
                                 text |-> message]]
           /\ cqueue' = Route(cqueue, OriginTargets(routing_key), msg)
    /\ produced' = produced + 1
    /\ exchanges' = exchanges \cup {"direct_logs"}
    /\ last' = NoLast
    /\ UNCHANGED <<clusterVars, drain, inflight, report, cstate, chanOpen, bound, hconf, rbind, holding, dlqDeclared,
                   dlqBind, dlq, foreign, retryPublishes, deliveries>>

(* A delivery that does not come from producer.py: any body, with or       *)
(* without an x-retry-count header.                                        *)
basic_deliver_raw(routing_key, body, count) ==
    /\ foreign < MaxForeign
    /\ "direct_logs" \in exchanges
    /\ LET msg == [id |-> MaxProduced + foreign + 1, rk |-> routing_key,
                   body |-> body,
                   count |-> count, okey |-> "none", delay |-> 0, via |-> 0, due |-> 0]
       IN  /\ sent' = [sent EXCEPT ![msg.id] =
                                [msg |-> msg, by |-> "other",
                                 text |-> body.content]]
           /\ cqueue' = Route(cqueue, OriginTargets(routing_key), msg)
    /\ foreign' = foreign + 1
    /\ last' = NoLast
    /\ UNCHANGED <<clusterVars, drain, inflight, report, exchanges, cstate, chanOpen, bound, hconf, rbind, holding,
                   dlqDeclared, dlqBind, dlq, produced, retryPublishes, deliveries>>

(* The broker hands the head of the consumer's queue to callback. fail     *)
(* names the broker operation that raises during this delivery, or         *)
(* "channel_closed" when the session is lost before the first guard.       *)
callback_run(c, rnd, fail) ==
    /\ cstate[c] = "consuming"
    /\ cqueue[c] # <<>>
    /\ deliveries < MaxDeliveries
    /\ deliveries' = deliveries + 1
    /\ LET m == Head(cqueue[c])
           s0 == [open |-> chanOpen[c] /\ fail # "channel_closed",
                  exchanges |-> exchanges,
                  hconf |-> hconf, rbind |-> rbind, holding |-> holding,
                  dlqDeclared |-> dlqDeclared, dlqBind |-> dlqBind,
                  dlq |-> dlq, rpub |-> retryPublishes, acks |-> 0,
                  routed |-> {}, trace |-> <<>>, ret |-> "ok",
                  branch |-> "none", error |-> "none", reason |-> "none",
                  rets |-> [h \in Helpers |-> "none"]]
       IN  \E s \in {RunCallback(s0, m, rnd, fail)} :
           /\ exchanges' = s.exchanges
           /\ hconf' = s.hconf
           /\ rbind' = s.rbind
           /\ holding' = s.holding
           /\ dlqDeclared' = s.dlqDeclared
           /\ dlqBind' = s.dlqBind
           /\ dlq' = s.dlq
           /\ retryPublishes' = s.rpub
           /\ chanOpen' = [chanOpen EXCEPT ![c] = s.open]
           /\ cqueue' = [cqueue EXCEPT ![c] = IF s.acks > 0 THEN Tail(@) ELSE @]
           /\ cstate' = [cstate EXCEPT ![c] =
                           IF s.open /\ s.ret # "raise" THEN "consuming"
                                                        ELSE "failing"]
           /\ last' = [valid |-> TRUE, c |-> c, m |-> m,
                       openAtEntry |-> s0.open,
                       retry_count |-> IF IntRaises(m.count) THEN 0
                                       ELSE get_retry_count(m),
                       branch |-> s.branch, trace |-> s.trace,
                       processed |->
                          IF json_loads(m.body) = "ok"
                             /\ ~IntRaises(m.count)
                             /\ m.body.fmt = "json_object"
                          THEN process_message(m.body, rnd)
                          ELSE [ret |-> "none", error |-> "none"],
                       routed |-> s.routed, reason |-> s.reason,
                       rets |-> s.rets,
                       acks |-> s.acks, raised |-> (s.ret = "raise"),
                       dlqBefore |-> Len(dlq)]
    /\ UNCHANGED <<clusterVars, drain, report, bound, produced, foreign, sent>>

(* A delivery and the run of callback on it, as one step *)
callback(c, rnd, fail) ==
    /\ callback_run(c, rnd, fail)
    /\ UNCHANGED inflight

(* x-message-ttl has elapsed for the head of retry_queue_<d>s: the broker  *)
(* dead-letters it to x-dead-letter-exchange under                         *)
(* x-dead-letter-routing-key, headers unchanged.                           *)
expire(d) ==
    /\ holding[d] # <<>>
    /\ Head(holding[d]).due = 0
    /\ LET m == Head(holding[d])
           rk == hconf[d].dlrk
       IN  cqueue' = Route(cqueue, OriginTargets(rk),
                           [m EXCEPT !.rk = rk, !.via = d])
    /\ holding' = [holding EXCEPT ![d] = Tail(@)]
    /\ last' = NoLast
    /\ UNCHANGED <<clusterVars, drain, inflight, report, exchanges, cstate, chanOpen, bound, hconf, rbind,
                   dlqDeclared, dlqBind, dlq, produced, foreign, sent,
                   retryPublishes, deliveries>>

(* One second passes: every message waiting in a holding queue is one      *)
(* second closer to its x-message-ttl. Expired heads leave first.          *)
tick ==
    /\ \E d \in HoldingDelays : holding[d] # <<>>
    /\ \A d \in HoldingDelays : holding[d] # <<>> => Head(holding[d]).due > 0
    /\ holding' = [d \in HoldingDelays |->
                     [i \in 1..Len(holding[d]) |->
                        [holding[d][i] EXCEPT !.due = @ - 1]]]
    /\ last' = NoLast
    /\ UNCHANGED <<clusterVars, drain, inflight, report, exchanges, cstate, chanOpen, bound, cqueue, hconf, rbind,
                   dlqDeclared, dlqBind, dlq, produced, foreign, sent,
                   retryPublishes, deliveries>>

(* consume_messages, except Exception around start_consuming: the closed   *)
(* channel ends start_consuming, connection.close() follows and the        *)
(* exclusive queue goes with the connection.                               *)
consume_error(c) ==
    /\ cstate[c] = "failing"
    /\ cstate' = [cstate EXCEPT ![c] = "stopped"]
    /\ chanOpen' = [chanOpen EXCEPT ![c] = FALSE]
    /\ bound' = [bound EXCEPT ![c] = {}]
    /\ cqueue' = [cqueue EXCEPT ![c] = <<>>]
    /\ last' = NoLast
    /\ UNCHANGED <<clusterVars, drain, inflight, report, exchanges, hconf, rbind, holding, dlqDeclared, dlqBind,
                   dlq, produced, foreign, sent, retryPublishes, deliveries>>

(* monitor.list_queues(): a new connection and channel, one line per      *)
(* queue of the list, connection.close()                                   *)
list_queues ==
    /\ LET b0 == [dlqDeclared |-> dlqDeclared, hconf |-> hconf, dlq |-> dlq,
                  holding |-> holding]
       IN  \E st \in {ListFrom([open |-> TRUE, b |-> b0, rows |-> <<>>], 1)} :
             /\ report' = [valid |-> TRUE, rows |-> st.rows,
                           actual |-> [i \in DOMAIN queues_to_check |->
                                         IF Exists(b0, queues_to_check[i])
                                         THEN Depth(b0, queues_to_check[i])
                                         ELSE None]]
             /\ dlqDeclared' = st.b.dlqDeclared
             /\ hconf' = st.b.hconf
             /\ dlq' = st.b.dlq
             /\ holding' = st.b.holding
    /\ last' = NoLast
    /\ UNCHANGED <<clusterVars, drain, inflight, exchanges, cstate, chanOpen, bound, cqueue, rbind, dlqBind,
                   produced, foreign, sent, retryPublishes, deliveries>>

Next ==
    \/ \E c \in Consumers : consume_messages(c, Subscription[c])
    \/ \E rk \in RoutingKeys, t \in Texts : send_message(rk, t)
    \/ \E c \in Consumers, rnd \in BOOLEAN, fail \in FailPoints :
          callback(c, rnd, fail)
    \/ \E d \in HoldingDelays : expire(d)
    \/ tick
    \/ \E c \in Consumers : consume_error(c)

Spec == Init /\ [][Next]_vars

(* One consumer instance, which also receives deliveries that do not come  *)
(* from producer.py                                                        *)
NextRaw ==
    \/ \E rk \in RoutingKeys, t \in Texts : send_message(rk, t)
    \/ \E rk \in RoutingKeys, r \in RawDeliveries :
          basic_deliver_raw(rk, r.body, r.count)
    \/ \E rnd \in BOOLEAN, fail \in FailPoints : callback("c1", rnd, fail)
    \/ \E d \in HoldingDelays : expire(d)
    \/ tick
    \/ consume_error("c1")

SpecRaw == Init /\ [][NextRaw]_vars

(* One consumer instance on a healthy channel, the producer, and the       *)
(* monitor in list mode                                                    *)
NextMonitor ==
    \/ \E rk \in RoutingKeys, t \in Texts : send_message(rk, t)
    \/ \E rnd \in BOOLEAN : callback("c1", rnd, "none")
    \/ \E d \in HoldingDelays : expire(d)
    \/ tick
    \/ list_queues

SpecMonitor == Init /\ [][NextMonitor]_vars

TypeOK ==
    /\ produced \in 0..MaxProduced
    /\ foreign \in 0..MaxForeign
    /\ \A c \in Consumers : cstate[c] \in {"new", "consuming", "failing", "stopped"}

(* One consumer instance on a healthy channel and a publisher other than   *)
(* producer.py that sets x-retry-count itself                              *)
NextForeign ==
    \/ \E rk \in RoutingKeys, t \in Texts,
          count \in MinRetryCount..MAX_RETRY_ATTEMPTS :
          basic_deliver_raw(rk, json_dumps(t), count)
    \/ \E rnd \in BOOLEAN : callback("c1", rnd, "none")
    \/ \E d \in HoldingDelays : expire(d)
    \/ tick

SpecForeign == Init /\ [][NextForeign]_vars

(* ------------------------------ monitor dlq ---------------------------- *)

(* monitor.consume_dead_letter_queue(), up to start_consuming: declares    *)
(* the dead-letter exchange and queue, returns at once when the queue is   *)
(* empty.                                                                  *)
consume_dead_letter_queue ==
    /\ drain.state # "consuming"
    /\ exchanges' = exchanges \cup {"direct_logs_dlq"}
    /\ dlqDeclared' = TRUE
    /\ drain' = [drain EXCEPT !.state = IF Len(dlq) = 0 THEN "off"
                                                        ELSE "consuming"]
    /\ last' = NoLast
    /\ UNCHANGED <<clusterVars, inflight, report, cstate, chanOpen, bound, cqueue, hconf,
                   rbind, holding, dlqBind, dlq, produced, foreign, sent,
                   retryPublishes, deliveries>>

(* callback of consume_dead_letter_queue on the oldest record of           *)
(* dead_letter_queue. closed: the channel is closed when basic_ack is      *)
(* called, so basic_ack raises: in the try block, and again in the except  *)
(* clause, from where the exception leaves callback and start_consuming.   *)
(* The unacknowledged record stays in the queue.                           *)
dlq_callback(closed) ==
    /\ drain.state = "consuming"
    /\ dlq # <<>>
    /\ Len(drain.handled) < MaxDrained
    /\ LET rec == Head(dlq)
           printRaises == json_loads(rec.body) # "ok"
       IN  drain' =
             [state |-> IF closed THEN "crashed" ELSE "consuming",
              handled |-> Append(drain.handled,
                            [id |-> rec.id,
                             printRaised |-> printRaises,
                             attempts |-> IF closed /\ ~printRaises THEN 2
                                                                    ELSE 1,
                             acks |-> IF closed THEN 0 ELSE 1])]
    /\ dlq' = IF closed THEN dlq ELSE Tail(dlq)
    /\ last' = NoLast
    /\ UNCHANGED <<clusterVars, inflight, report, exchanges, cstate, chanOpen, bound, cqueue,
                   hconf, rbind, holding, dlqDeclared, dlqBind, produced,
                   foreign, sent, retryPublishes, deliveries>>

(* except KeyboardInterrupt: stop_consuming(), connection.close() *)
KeyboardInterrupt ==
    /\ drain.state = "consuming"
    /\ drain' = [drain EXCEPT !.state = "stopped"]
    /\ last' = NoLast
    /\ UNCHANGED <<clusterVars, inflight, report, exchanges, cstate, chanOpen, bound, cqueue,
                   hconf, rbind, holding, dlqDeclared, dlqBind, dlq, produced,
                   foreign, sent, retryPublishes, deliveries>>

(* One consumer instance on a healthy channel, the producer and other      *)
(* publishers, and the monitor in dlq mode                                 *)
NextDrain ==
    \/ \E rk \in RoutingKeys, t \in Texts : send_message(rk, t)
    \/ \E rk \in RoutingKeys, r \in RawDeliveries :
          basic_deliver_raw(rk, r.body, r.count)
    \/ \E rnd \in BOOLEAN : callback("c1", rnd, "none")
    \/ \E d \in HoldingDelays : expire(d)
    \/ tick
    \/ consume_dead_letter_queue
    \/ \E closed \in BOOLEAN : dlq_callback(closed)
    \/ KeyboardInterrupt

SpecDrain == Init /\ [][NextDrain]_vars

(* --------------------------- one delivery at a time -------------------- *)
(* The consumer's receive loop with the broker's side of it: the broker     *)
(* sends deliveries ahead as far as basic_qos allows, start_consuming calls *)
(* callback on them one at a time. The deliveries the broker has sent and   *)
(* not seen acknowledged are the first inflight.delivered messages of the   *)
(* consumer's queue.                                                        *)

(* channel.basic_qos(prefetch_count=1) *)
prefetch_count == 1

(* No basic_qos: the broker sends every ready message ahead *)
MayDeliver_no_qos(outstanding) == TRUE

(* The broker sends a further delivery while the outstanding ones are      *)
(* fewer than prefetch_count (0 = no limit)                                *)
MayDeliver(outstanding) ==
    prefetch_count = 0 \/ outstanding < prefetch_count

(* The broker sends the next ready message of the queue to the consumer    *)
(* (basic_consume with auto_ack=False): allowed while the deliveries it    *)
(* has not seen acknowledged are fewer than prefetch_count, 0 = no limit.  *)
deliver(c) ==
    /\ cstate[c] = "consuming"
    /\ chanOpen[c]
    /\ inflight.delivered < Len(cqueue[c])
    /\ MayDeliver(inflight.delivered)
    /\ inflight' = [inflight EXCEPT !.delivered = @ + 1]
    /\ UNCHANGED <<clusterVars, exchanges, cstate, chanOpen, bound, cqueue, hconf, rbind,
                   holding, dlqDeclared, dlqBind, dlq, produced, foreign, sent,
                   retryPublishes, deliveries, last, report, drain>>

(* channel.start_consuming(): the loop takes the oldest delivery it has    *)
(* received and calls callback with it; it is back in the loop only when   *)
(* callback has returned.                                                  *)
start_consuming(c) ==
    /\ cstate[c] = "consuming"
    /\ ~inflight.handling
    /\ inflight.delivered > 0
    /\ deliveries < MaxDeliveries
    /\ inflight' = [inflight EXCEPT !.handling = TRUE]
    /\ last' = NoLast
    /\ UNCHANGED <<clusterVars, exchanges, cstate, chanOpen, bound, cqueue, hconf, rbind,
                   holding, dlqDeclared, dlqBind, dlq, produced, foreign, sent,
                   retryPublishes, deliveries, report, drain>>

(* callback runs to its return on the delivery start_consuming gave it; an *)
(* acknowledged delivery is no longer outstanding at the broker.           *)
callback_return(c, rnd, fail) ==
    /\ inflight.handling
    /\ callback_run(c, rnd, fail)
    /\ inflight' = [delivered |-> IF last'.acks > 0
                                  THEN inflight.delivered - 1
                                  ELSE inflight.delivered,
                    handling |-> FALSE]

(* One consumer instance whose deliveries are sent, dispatched and handled *)
(* in separate steps, next to the producer, other publishers and the       *)
(* holding queues                                                          *)
NextFlight ==
    \/ \E rk \in RoutingKeys, t \in Texts : send_message(rk, t)
    \/ \E rk \in RoutingKeys, r \in RawDeliveries :
          basic_deliver_raw(rk, r.body, r.count)
    \/ deliver("c1")
    \/ start_consuming("c1")
    \/ \E rnd \in BOOLEAN, fail \in {"none", "basic_ack"} :
          callback_return("c1", rnd, fail)
    \/ \E d \in HoldingDelays : expire(d)
    \/ tick

SpecFlight == Init /\ [][NextFlight]_vars

(* ------------------------------- cluster ------------------------------- *)

(* Bodies another publisher puts on cluster_exchange: text that is not     *)
(* JSON, bytes that are not UTF-8, JSON that is not an object              *)
ClusterRawBodies ==
    { [fmt |-> "malformed", content |-> "invalid json {broken"],
      [fmt |-> "bad_utf8", content |-> "none"],
      [fmt |-> "json_number", content |-> "<number>"] }

(* A publisher other than cluster/producer.py publishes body under         *)
(* cluster_messages                                                        *)
cluster_publish_raw(body) ==
    /\ cluster_queue.foreign < MaxClusterForeign
    /\ cluster_queue' =
          [messages |-> Append(cluster_queue.messages,
                               [id |-> total + cluster_queue.foreign,
                                body |-> body]),
           foreign |-> cluster_queue.foreign + 1]
    /\ UNCHANGED <<retryVars, cluster_consumer, cluster_producer>>

(* ClusterConsumer.connect: max_retries, and the first retry_delay *)
max_retries == 5
retry_delay_0 == 2

(* A retry_delay that stays what it is *)
NextDelay_constant(retry_delay) == retry_delay

(* retry_delay *= 2 *)
NextDelay(retry_delay) == retry_delay * 2

(* The for loop of ClusterConsumer.connect from iteration attempt on; the  *)
(* first `failures` attempts raise. r collects the attempts made and the   *)
(* arguments of time.sleep.                                                *)
RECURSIVE ConnectLoop(_, _, _, _)
ConnectLoop(attempt, retry_delay, failures, r) ==
    IF attempt >= max_retries
    THEN [valid |-> TRUE, ret |-> FALSE, failures |-> failures,
          attempts |-> r.attempts, sleeps |-> r.sleeps]
    ELSE IF attempt >= failures
    THEN [valid |-> TRUE, ret |-> TRUE, failures |-> failures,
          attempts |-> r.attempts + 1, sleeps |-> r.sleeps]
    ELSE IF attempt < max_retries - 1
    THEN ConnectLoop(attempt + 1, NextDelay(retry_delay), failures,
                     [attempts |-> r.attempts + 1,
                      sleeps |-> Append(r.sleeps, retry_delay)])
    ELSE ConnectLoop(attempt + 1, retry_delay, failures,
                     [attempts |-> r.attempts + 1, sleeps |-> r.sleeps])

(* consumer.connect() of main *)
consumer_connect(failures) ==
    /\ cluster_consumer.state = "new"
    /\ \E r \in {ConnectLoop(0, retry_delay_0, failures,
                              [attempts |-> 0, sleeps |-> <<>>])} :
          cluster_consumer' = [cluster_consumer EXCEPT
                                 !.connect = r,
                                 !.state = IF r.ret THEN "connected"
                                                    ELSE "failed"]
    /\ UNCHANGED <<retryVars, cluster_queue, cluster_producer>>

(* ClusterConsumer.start_consuming, up to the consumption loop *)
cluster_start_consuming ==
    /\ cluster_consumer.state = "connected"
    /\ cluster_consumer' = [cluster_consumer EXCEPT !.state = "consuming"]
    /\ UNCHANGED <<retryVars, cluster_queue, cluster_producer>>

(* The exception class the try block of message_callback ends with, or     *)
(* "none". closed: the channel is closed when basic_ack or basic_nack is   *)
(* called.                                                                 *)
TryBlock(body, closed) ==
    CASE json_loads(body) # "ok" -> json_loads(body)
      [] body.fmt = "json_number" -> "AttributeError"
      [] closed -> "ChannelWrongStateError"
      [] OTHER -> "none"

Settlement(acks, nacks, requeue, raised) ==
    [acks |-> acks, nacks |-> nacks, requeue |-> requeue, raised |-> raised]

(* ClusterConsumer.message_callback(channel, method, properties, body) *)
message_callback(body, closed) ==
    CASE TryBlock(body, closed) = "none" -> Settlement(1, 0, FALSE, FALSE)
      [] TryBlock(body, closed) = "JSONDecodeError" ->
           IF closed THEN Settlement(0, 0, FALSE, TRUE)
                     ELSE Settlement(0, 1, FALSE, FALSE)
      [] OTHER ->
           IF closed THEN Settlement(0, 0, FALSE, TRUE)
                     ELSE Settlement(0, 1, TRUE, FALSE)

(* process_data_events hands the oldest message of cluster_queue to        *)
(* message_callback. An acknowledged or rejected message leaves the queue, *)
(* a requeued or unsettled one stays; an exception that leaves the         *)
(* callback ends the consumption loop (stop_consuming in finally).         *)
cluster_deliver(closed) ==
    /\ cluster_consumer.state = "consuming"
    /\ cluster_queue.messages # <<>>
    /\ Len(cluster_consumer.settled) < MaxClusterDeliveries
    /\ \E r \in {message_callback(Head(cluster_queue.messages).body, closed)} :
          /\ cluster_consumer' =
                [cluster_consumer EXCEPT
                   !.state = IF r.raised THEN "stopped" ELSE @,
                   !.settled = Append(@, [body |->
                                            Head(cluster_queue.messages).body,
                                          r |-> r])]
          /\ cluster_queue' =
                [cluster_queue EXCEPT
                   !.messages = IF r.acks = 1 \/ (r.nacks = 1 /\ ~r.requeue)
                                THEN Tail(@) ELSE @]
    /\ UNCHANGED <<retryVars, cluster_producer>>

(* signal_handler: stop_consuming() *)
signal_handler ==
    /\ cluster_consumer.state = "consuming"
    /\ cluster_consumer' = [cluster_consumer EXCEPT !.state = "stopped"]
    /\ UNCHANGED <<retryVars, cluster_queue, cluster_producer>>

(* What the producer did, in order: "connection_error", "connected",       *)
(* "publish_failed", "published"; id is the message_id, or -1.             *)
Event(ev, id) == [ev |-> ev, id |-> id]

(* ClusterProducer.connect: the while loop, whose first cfails rounds      *)
(* raise (each followed by time.sleep(2)).                                 *)
RECURSIVE producer_connect(_, _)
producer_connect(st, cfails) ==
    IF cfails = 0
    THEN [st EXCEPT !.trace = Append(@, Event("connected", -1))]
    ELSE producer_connect(
           [st EXCEPT !.trace = Append(@, Event("connection_error", -1))],
           cfails - 1)

RECURSIVE cluster_send_message(_, _, _, _)

(* An except clause that reconnects and leaves it at that *)
PublishFailed_no_resend(st, message_id, pfails, cfails) ==
    producer_connect(
      [st EXCEPT !.trace = Append(@, Event("publish_failed", message_id))],
      cfails)

(* except (pika.exceptions.AMQPError, Exception): self.connect(), then     *)
(* self.send_message(message_body, message_id)                             *)
PublishFailed(st, message_id, pfails, cfails) ==
    cluster_send_message(
      producer_connect(
        [st EXCEPT !.trace = Append(@, Event("publish_failed", message_id))],
        cfails),
      message_id, pfails - 1, cfails)

(* ClusterProducer.send_message(message_body, message_id): the first       *)
(* pfails calls of basic_publish raise, every connect() needs cfails       *)
(* failed rounds. st.messages is cluster_queue.                            *)
cluster_send_message(st, message_id, pfails, cfails) ==
    IF pfails = 0
    THEN [st EXCEPT !.trace = Append(@, Event("published", message_id)),
                    !.messages = Append(@, [id |-> message_id,
                                            body |-> json_dumps(message_id)])]
    ELSE PublishFailed(st, message_id, pfails, cfails)

(* ClusterProducer(): __init__ calls connect() *)
ClusterProducer(cfails) ==
    /\ cluster_producer.state = "new"
    /\ \E st \in {producer_connect([trace |-> cluster_producer.trace], cfails)} :
          cluster_producer' = [cluster_producer EXCEPT !.state = "sending",
                                                       !.trace = st.trace]
    /\ UNCHANGED <<retryVars, cluster_queue, cluster_consumer>>

(* One round of the for loop of send_messages: send_message(message, i) *)
send_messages(pfails, cfails) ==
    /\ cluster_producer.state = "sending"
    /\ cluster_producer.i < total
    /\ \E st \in {cluster_send_message(
                      [trace |-> cluster_producer.trace,
                       messages |-> cluster_queue.messages],
                      cluster_producer.i, pfails, cfails)} :
          /\ cluster_producer' =
                [cluster_producer EXCEPT
                   !.trace = st.trace,
                   !.returned = Append(@, cluster_producer.i),
                   !.i = @ + 1]
          /\ cluster_queue' = [cluster_queue EXCEPT !.messages = st.messages]
    /\ UNCHANGED <<retryVars, cluster_consumer>>

(* producer.close() in the finally clause of main *)
producer_close ==
    /\ cluster_producer.state = "sending"
    /\ cluster_producer.i = total
    /\ cluster_producer' = [cluster_producer EXCEPT !.state = "closed"]
    /\ UNCHANGED <<retryVars, cluster_queue, cluster_consumer>>

(* cluster/producer.py, cluster/consumer.py and another publisher on one   *)
(* cluster_queue                                                           *)
NextCluster ==
    \/ \E cfails \in 0..MaxConnectFailures : ClusterProducer(cfails)
    \/ \E pfails \in 0..MaxPublishFailures, cfails \in 0..MaxConnectFailures :
          send_messages(pfails, cfails)
    \/ producer_close
    \/ \E body \in ClusterRawBodies : cluster_publish_raw(body)
    \/ \E failures \in 0..max_retries : consumer_connect(failures)
    \/ cluster_start_consuming
    \/ \E closed \in BOOLEAN : cluster_deliver(closed)
    \/ signal_handler

SpecCluster == Init /\ [][NextCluster]_vars

(* ------------------------------ properties ----------------------------- *)

Range(seq) == {seq[i] : i \in DOMAIN seq}
Count(seq, ev) == Cardinality({i \in DOMAIN seq : seq[i] = ev})
Called(ev) == ev \in Range(last.trace)

(* ev occurs in the trace, and nothing but the ack follows it *)
AckIsLast ==
    /\ Count(last.trace, "safe_ack") = 1
    /\ \A i, j \in DOMAIN last.trace :
          (last.trace[i] = "safe_ack" /\ j > i) => last.trace[j] \in {"basic_ack", "raise"}

(* The record the callback that has just returned put in dead_letter_queue *)
Published == Called("dlq.basic_publish")
Record == dlq[Len(dlq)]

(* Only c1 has ever run, and its channel has never been closed *)
SoleOpenConsumer ==
    /\ cstate["c1"] = "consuming" /\ chanOpen["c1"]
    /\ cstate["c2"] = "new"

FromProducer(i, text) == sent[i].by = "producer" /\ sent[i].text = text

RecordsOf(i) == {k \in DOMAIN dlq : dlq[k].id = i}

(* C1: with the channel open throughout and one consumer, a message that   *)
(* fails transiently on every delivery is published to the retry exchange  *)
(* at most MAX_RETRY_ATTEMPTS times, and when it is dead-lettered it has   *)
(* been published there exactly MAX_RETRY_ATTEMPTS times and carries       *)
(* x-retry-count = MAX_RETRY_ATTEMPTS.                                     *)
C1_AttemptCeiling ==
    \A i \in Ids :
       (SoleOpenConsumer /\ FromProducer(i, "temporary_error")) =>
          /\ retryPublishes[i] <= MAX_RETRY_ATTEMPTS
          /\ \A k \in RecordsOf(i) :
                /\ dlq[k].count = MAX_RETRY_ATTEMPTS
                /\ retryPublishes[i] = MAX_RETRY_ATTEMPTS

(* C2: dead_letter_queue never holds two records of the same produced      *)
(* message.                                                                *)
C2_OneDeadLetterRecord ==
    \A i \in Ids : sent[i].by = "producer" => Cardinality(RecordsOf(i)) <= 1

(* C3: a publish of send_to_retry_queue with computed delay d puts the     *)
(* message in retry_queue_<d>s and in no other holding queue.              *)
C3_SingleHoldingQueue ==
    (last.valid /\ Called("retry.basic_publish")) =>
        last.routed = {Delay(last.retry_count)}

(* C4: scenario A. Every redelivery of a temporary_error message comes out *)
(* of the holding queue of the delay computed at its latest escalation     *)
(* (1s, then 2s, then 4s), and the delivery with x-retry-count = 3 is      *)
(* dead-lettered with reason "Max retry attempts exceeded".                *)
C4_ScenarioA ==
    (/\ last.valid
     /\ cstate["c2"] = "new"
     /\ FromProducer(last.m.id, "temporary_error")) =>
        /\ last.m.count # NoCount =>
              /\ last.m.via = Delay(last.m.count - 1)
              /\ last.m.via = last.m.delay
        /\ last.m.count = MAX_RETRY_ATTEMPTS =>
              /\ ~Called("send_to_retry_queue")
              /\ last.reason = "Max retry attempts exceeded"

(* The delivery just handled is one on which process_message raises: its  *)
(* body is a JSON object whose content holds 'critical_error' (ValueError)  *)
IsPermanent ==
    /\ last.valid
    /\ json_loads(last.m.body) = "ok"
    /\ last.m.body.fmt = "json_object"
    /\ last.m.body.content = "critical_error"

(* C5: when process_message raises, callback does not call                 *)
(* send_to_retry_queue whatever the x-retry-count, declares no holding     *)
(* queue, calls send_to_dead_letter_queue once and then attempts the ack.  *)
C5_NoRetryForPermanent ==
    IsPermanent =>
        /\ last.branch = "permanent"
        /\ ~Called("send_to_retry_queue")
        /\ ~Called("retry.queue_declare")
        /\ Count(last.trace, "send_to_dead_letter_queue") = 1
        /\ last.trace[1] = "send_to_dead_letter_queue"
        /\ AckIsLast

C5_Witness ==
    /\ IsPermanent
    /\ last.m.count = MAX_RETRY_ATTEMPTS - 1
    /\ Published /\ Record.id = last.m.id
    /\ last.acks = 1

(* The error classes process_message does not name in its except clauses, *)
(* raised inside it *)
Unclassified == {"RuntimeError", "AttributeError"}

(* The delivery just handled raised in callback outside process_message:   *)
(* an undecodable body, or a JSON value without 'content'                  *)
IsUnexpected ==
    /\ last.valid
    /\ \/ json_loads(last.m.body) = "UnicodeDecodeError"
       \/ json_loads(last.m.body) = "ok" /\ last.m.body.fmt = "json_no_content"

DeadLetteredAtOnce ==
    /\ ~Called("send_to_retry_queue")
    /\ Count(last.trace, "send_to_dead_letter_queue") = 1
    /\ last.trace[1] = "send_to_dead_letter_queue"

(* C6 as stated: a delivery on which processing raised an error that is    *)
(* not the transient one is dead-lettered on that delivery and never sent  *)
(* to the retry exchange.                                                  *)
C6_UnclassifiedNeverRetried ==
    (last.valid /\ (IsUnexpected \/ last.processed.error \in Unclassified)) =>
        DeadLetteredAtOnce

(* C6 amended: an error raised in callback outside process_message is      *)
(* dead-lettered at once with reason "Unexpected error: " and never        *)
(* retried; an error raised inside process_message that is neither         *)
(* ValueError nor TypeError comes back as False, and the delivery is       *)
(* escalated below the ceiling and dead-lettered only at the ceiling.      *)
C6_UnclassifiedErrors ==
    /\ IsUnexpected =>
          /\ DeadLetteredAtOnce
          /\ last.reason = "Unexpected error: "
    /\ (last.valid /\ last.processed.error \in Unclassified) =>
          /\ last.processed.ret = "False"
          /\ last.retry_count < MAX_RETRY_ATTEMPTS =>
                last.trace[1] = "send_to_retry_queue"
          /\ last.retry_count >= MAX_RETRY_ATTEMPTS =>
                /\ DeadLetteredAtOnce
                /\ last.reason = "Max retry attempts exceeded"

C6_Witness ==
    /\ last.valid
    /\ last.processed.error = "RuntimeError"
    /\ Called("retry.basic_publish")
    /\ last.acks = 1

(* C7 as stated: a delivery whose body does not parse is never retried, is *)
(* dead-lettered once with a reason that starts with "Invalid JSON:", the  *)
(* record carrying x-retry-count only if the delivery did, and the ack is  *)
(* attempted afterwards.                                                   *)
C7_ParseErrorReason ==
    (last.valid /\ json_loads(last.m.body) # "ok") =>
        /\ DeadLetteredAtOnce
        /\ last.reason = "Invalid JSON: "
        /\ Published => Record.count = last.m.count
        /\ AckIsLast

(* C7 amended: as stated when json.loads raises JSONDecodeError; a body    *)
(* that cannot be decoded as text is handled the same way, but its reason  *)
(* starts with "Unexpected error:".                                        *)
C7_ParseErrors ==
    (last.valid /\ json_loads(last.m.body) # "ok") =>
        /\ DeadLetteredAtOnce
        /\ last.reason = IF json_loads(last.m.body) = "JSONDecodeError"
                         THEN "Invalid JSON: " ELSE "Unexpected error: "
        /\ Published =>
              /\ Record.id = last.m.id /\ Record.reason = last.reason
              /\ Record.count = last.m.count
        /\ (last.openAtEntry /\ ~Called("raise")) => Published
        /\ AckIsLast

C7_Witness ==
    /\ last.valid
    /\ json_loads(last.m.body) = "JSONDecodeError"
    /\ last.m.count = MAX_RETRY_ATTEMPTS - 1
    /\ Published /\ Record.reason = "Invalid JSON: "
    /\ Record.count = MAX_RETRY_ATTEMPTS - 1
    /\ last.acks = 1

(* C8: the invalid-JSON case of the retry test. The text                   *)
(* "invalid json {broken", sent through producer.send_message, is sent to  *)
(* the dead-letter queue with a JSON error by the consumer and is not      *)
(* processed successfully.                                                 *)
C8_InvalidJsonTestCase ==
    (last.valid /\ FromProducer(last.m.id, "invalid json {broken")) =>
        /\ last.branch # "success"
        /\ last.reason = "Invalid JSON: "

(* C9: in every branch callback invokes safe_ack exactly once, after the   *)
(* escalation or dead-letter attempt has returned, and acknowledges at     *)
(* most once.                                                              *)
C9_AcknowledgeTotality ==
    last.valid =>
        /\ AckIsLast
        /\ Count(last.trace, "basic_ack") <= 1
        /\ last.acks <= 1
        /\ ~last.raised

C9_Witness ==
    /\ last.valid
    /\ last.branch = "escalate_fallback"
    /\ Count(last.trace, "send_to_retry_queue") = 1
    /\ Count(last.trace, "send_to_dead_letter_queue") = 1
    /\ Count(last.trace, "safe_ack") = 1

(* The delivery just handled failed transiently below the ceiling, and the *)
(* channel was closed when callback started                                *)
IsChannelDown ==
    /\ last.valid
    /\ ~last.openAtEntry
    /\ last.processed.ret = "False"
    /\ last.retry_count < MAX_RETRY_ATTEMPTS

(* C10: with the channel closed, send_to_retry_queue, then                 *)
(* send_to_dead_letter_queue, then safe_ack are called, each returns False *)
(* without a broker operation, and callback returns normally.              *)
C10_ChannelDown ==
    IsChannelDown =>
        /\ last.trace = <<"send_to_retry_queue", "send_to_dead_letter_queue",
                          "safe_ack">>
        /\ last.routed = {}
        /\ last.acks = 0
        /\ Len(dlq) = last.dlqBefore
        /\ ~last.raised

C10_Witness ==
    /\ IsChannelDown
    /\ last.branch = "escalate_fallback"
    /\ last.reason = "Retry queue failed after N attempts"

(* C11: after a broker operation has failed while callback handled a       *)
(* delivery on a channel that was open, the consumer keeps consuming on an *)
(* open channel, so that later deliveries reach their ack.                 *)
C11_ForwardProgress ==
    (last.valid /\ last.openAtEntry /\ Called("raise")) =>
        /\ cstate[last.c] = "consuming"
        /\ chanOpen[last.c]

(* C12: a declaration of retry_queue_<d>s that finds the queue declared,   *)
(* by a message of any routing key or by any consumer instance, is not     *)
(* refused by the broker.                                                  *)
C12_QueueReuse ==
    last.valid => ~Called("PRECONDITION_FAILED")

(* Messages waiting in the consumers' queues *)
QueuedMessages ==
    UNION {{cqueue[c][i] : i \in DOMAIN cqueue[c]} : c \in Consumers}

(* C13: every message in a holding queue carries, as                       *)
(* x-original-routing-key, the key the queue dead-letters under, and every *)
(* message that came back from a holding queue is on direct_logs under the *)
(* routing key it was first published with.                                *)
C13_RedeliveryKey ==
    /\ \A d \in HoldingDelays : \A i \in DOMAIN holding[d] :
          /\ hconf[d] # NoQueue
          /\ hconf[d].dlx = "direct_logs"
          /\ hconf[d].dlrk = holding[d][i].okey
          /\ holding[d][i].okey = sent[holding[d][i].id].msg.rk
    /\ \A m \in QueuedMessages :
          m.via # 0 => /\ m.rk = m.okey
                       /\ m.rk = sent[m.id].msg.rk

(* A message is back from a holding queue while a message of another       *)
(* routing key has been published                                          *)
C13_Witness ==
    \E m \in QueuedMessages :
       /\ m.via # 0
       /\ \E i \in Ids : sent[i].by # "nobody" /\ sent[i].msg.rk # m.rk

(* Publishes of the message just handled to the retry exchange before this *)
(* delivery                                                                *)
PublishedBefore ==
    retryPublishes[last.m.id]
      - (IF Called("retry.basic_publish") THEN 1 ELSE 0)

(* C14: with one consumer, at every delivery of a produced message the     *)
(* retry count read by get_retry_count equals the number of times          *)
(* send_to_retry_queue has published that message before.                  *)
C14_AttemptCount ==
    (last.valid /\ cstate["c2"] = "new" /\ sent[last.m.id].by = "producer") =>
        last.retry_count = PublishedBefore

(* Records dead_letter_queue held for the message just handled when its    *)
(* callback started                                                        *)
DeadBefore == {k \in 1..last.dlqBefore : dlq[k].id = last.m.id}

(* C15: with one consumer, a produced message that has a record in         *)
(* dead_letter_queue is not delivered to callback again, and so is not     *)
(* published to the retry exchange again.                                  *)
C15_DeadLetterTerminal ==
    (last.valid /\ cstate["c2"] = "new" /\ sent[last.m.id].by = "producer") =>
        DeadBefore = {}

(* headers.get('x-retry-count', 0) of the inspector *)
RetryCountOf(rec) == IF rec.count = NoCount THEN 0 ELSE rec.count

(* C16: with one consumer, the record callback has just put in             *)
(* dead_letter_queue for a produced message carries the retry count of the *)
(* delivery, and that count is the number of times the message has been    *)
(* published to the retry exchange.                                        *)
C16_RetryCountAtDeath ==
    (/\ last.valid /\ cstate["c2"] = "new"
     /\ sent[last.m.id].by = "producer"
     /\ Published) =>
        /\ RetryCountOf(Record) = last.retry_count
        /\ RetryCountOf(Record) = retryPublishes[last.m.id]

(* callback has just called send_to_dead_letter_queue *)
DeadLetterCalled == last.valid /\ Called("send_to_dead_letter_queue")

(* C17: send_to_dead_letter_queue returns True or False and never raises;  *)
(* it returns True exactly when its basic_publish was performed, the       *)
(* record then being the last of dead_letter_queue; it returns False on a  *)
(* closed channel and on every failed declare, bind or publish, and then   *)
(* dead_letter_queue is as it was before the call.                         *)
C17_DeadLetterBestEffort ==
    DeadLetterCalled =>
        /\ Count(last.trace, "send_to_dead_letter_queue") = 1
        /\ last.rets["send_to_dead_letter_queue"] \in {"True", "False"}
        /\ ~last.raised
        /\ last.rets["send_to_dead_letter_queue"] = "True" <=> Published
        /\ Published =>
              /\ Len(dlq) = last.dlqBefore + 1
              /\ Record.id = last.m.id /\ Record.body = last.m.body
        /\ last.rets["send_to_dead_letter_queue"] = "False" =>
              Len(dlq) = last.dlqBefore
        /\ ~last.openAtEntry =>
              last.rets["send_to_dead_letter_queue"] = "False"

(* A declare, bind or publish of the dead-letter path failed on a channel  *)
(* that was open                                                           *)
C17_Witness ==
    /\ DeadLetterCalled
    /\ last.openAtEntry
    /\ last.trace[1] = "send_to_dead_letter_queue"
    /\ Called("dlq.queue_bind") /\ Called("raise") /\ ~Published
    /\ last.rets["send_to_dead_letter_queue"] = "False"
    /\ Len(dlq) = last.dlqBefore

(* ch.is_open is false when the i-th entry of the trace is reached: the    *)
(* channel was closed when callback started, or an operation has raised    *)
ClosedAt(i) ==
    \/ ~last.openAtEntry
    \/ \E j \in 1..(i - 1) : last.trace[j] = "raise"

(* C18: a helper called while ch.is_open is false performs no broker       *)
(* operation (the next thing callback does is to call another helper or to *)
(* return), returns False, and raises nothing; when the channel was closed *)
(* from the start the delivery leaves the broker untouched.                *)
C18_ChannelHealthGuard ==
    last.valid =>
        /\ \A i \in DOMAIN last.trace :
              (last.trace[i] \in Helpers /\ ClosedAt(i)) =>
                  /\ i < Len(last.trace) => last.trace[i + 1] \in Helpers
                  /\ last.rets[last.trace[i]] = "False"
        /\ ~last.raised
        /\ ~last.openAtEntry =>
              /\ last.acks = 0 /\ last.routed = {}
              /\ Len(dlq) = last.dlqBefore
              /\ \A i \in DOMAIN last.trace : last.trace[i] \in Helpers

(* The channel is lost in the middle of a delivery: send_to_retry_queue    *)
(* fails on an open channel, then the other two helpers find it closed     *)
C18_Witness ==
    /\ last.valid /\ last.openAtEntry
    /\ last.trace[1] = "send_to_retry_queue"
    /\ last.trace[Len(last.trace) - 1] = "send_to_dead_letter_queue"
    /\ last.trace[Len(last.trace)] = "safe_ack"
    /\ \A h \in Helpers : last.rets[h] = "False"

(* Position of the call of helper h in the trace of the delivery *)
CallOf(h) == CHOOSE i \in DOMAIN last.trace : last.trace[i] = h

(* C19: when send_to_retry_queue returns False, callback calls             *)
(* send_to_dead_letter_queue exactly once, after it and before safe_ack,   *)
(* with the reason "Retry queue failed after <n> attempts"; when it        *)
(* returns True, callback does not call send_to_dead_letter_queue.         *)
C19_EscalationFallback ==
    last.valid =>
        /\ last.rets["send_to_retry_queue"] = "False" =>
              /\ Count(last.trace, "send_to_dead_letter_queue") = 1
              /\ last.reason = "Retry queue failed after N attempts"
              /\ Count(last.trace, "safe_ack") = 1
              /\ CallOf("send_to_retry_queue")
                    < CallOf("send_to_dead_letter_queue")
              /\ CallOf("send_to_dead_letter_queue") < CallOf("safe_ack")
        /\ last.rets["send_to_retry_queue"] = "True" =>
              /\ ~Called("send_to_dead_letter_queue")
              /\ Called("retry.basic_publish")
              /\ Count(last.trace, "safe_ack") = 1

(* The publish to the retry exchange fails on an open channel and the      *)
(* fallback is taken                                                       *)
C19_Witness ==
    /\ last.valid /\ last.openAtEntry
    /\ Called("retry.queue_bind") /\ ~Called("retry.basic_publish")
    /\ last.rets["send_to_retry_queue"] = "False"
    /\ last.branch = "escalate_fallback"
    /\ last.rets["send_to_dead_letter_queue"] # "none"

(* C20: with one consumer whose channel stays open, the one message the    *)
(* producer has sent is done (processed or dead-lettered) after at most    *)
(* MAX_RETRY_ATTEMPTS + 1 deliveries to callback.                          *)
C20_TerminalOutcome ==
    (SoleOpenConsumer /\ produced = 1 /\ foreign = 0) =>
        deliveries <= MAX_RETRY_ATTEMPTS + 1

(* C21: a delivery whose processing did not succeed is acknowledged only   *)
(* after callback has published it to the retry exchange or to the         *)
(* dead-letter exchange.                                                   *)
C21_NoSilentLoss ==
    (last.valid /\ last.branch # "success" /\ last.acks = 1) =>
        (Called("retry.basic_publish") \/ Published)

(* C22: a message that expires from a holding queue is put in the queue of *)
(* at least one consumer, also after the consumer that escalated it has    *)
(* disconnected.                                                           *)
C22_Reinjection ==
    [][\A d \in HoldingDelays :
          expire(d) => OriginTargets(hconf[d].dlrk) # {}]_vars

(* C23: when a consumer whose channel is closed disconnects, the message   *)
(* it holds unacknowledged is afterwards in the queue of some consumer.    *)
C23_UnackedStaysRedeliverable ==
    [][\A c \in Consumers :
          (consume_error(c) /\ cqueue[c] # <<>>) =>
              \E o \in Consumers : Head(cqueue[c]) \in Range(cqueue'[o])]_vars

(* C24: in the report of list_queues every queue of the list that exists   *)
(* is shown with its depth, whatever queues before it are missing, and     *)
(* every missing queue is shown as N/A.                                    *)
C24_MissingQueueTolerated ==
    report.valid =>
        \A i \in DOMAIN queues_to_check : report.rows[i] = report.actual[i]

(* C25: a run of list_queues leaves every exchange, queue, binding and     *)
(* queue content of the broker as it was.                                  *)
C25_ListReadOnly ==
    [][list_queues =>
          UNCHANGED <<exchanges, hconf, rbind, holding, dlqDeclared, dlqBind,
                      dlq, cqueue, bound>>]_vars

(* list_queues has run on a broker where dead_letter_queue is missing and  *)
(* retry_queue_1s holds a message                                          *)
C25_Witness ==
    /\ report.valid
    /\ report.actual[1] = None
    /\ report.actual[2] = 1
    /\ ~dlqDeclared /\ Len(holding[1]) = 1

(* Attempt counts send_to_retry_queue is called with *)
Attempts == 0..(MAX_RETRY_ATTEMPTS - 1)

(* C26: the delay of attempt 0 is INITIAL_RETRY_DELAY and each further     *)
(* attempt multiplies it by BACKOFF_MULTIPLIER, so it grows strictly;      *)
(* every message waiting in a holding queue carries as x-retry-delay the   *)
(* delay of the attempt that published it, and every declared              *)
(* retry_queue_<d>s has x-message-ttl = d * 1000 for the delay d of one of *)
(* the attempts.                                                           *)
C26_BackoffFormula ==
    /\ Delay(0) = INITIAL_RETRY_DELAY
    /\ \A n \in Attempts : Delay(n + 1) = Delay(n) * BACKOFF_MULTIPLIER
    /\ \A n \in Attempts : BACKOFF_MULTIPLIER > 1 => Delay(n + 1) > Delay(n)
    /\ \A d \in HoldingDelays : \A i \in DOMAIN holding[d] :
          /\ holding[d][i].count - 1 \in Attempts
          /\ holding[d][i].delay = Delay(holding[d][i].count - 1)
    /\ \A d \in HoldingDelays :
          hconf[d] # NoQueue =>
              /\ hconf[d].ttl = d * 1000
              /\ \E n \in Attempts : d = Delay(n)

(* The third escalation has declared retry_queue_4s and its message waits  *)
(* there                                                                   *)
C26_Witness ==
    /\ hconf[Delay(MAX_RETRY_ATTEMPTS - 1)] # NoQueue
    /\ \E i \in DOMAIN holding[Delay(MAX_RETRY_ATTEMPTS - 1)] :
          /\ holding[Delay(MAX_RETRY_ATTEMPTS - 1)][i].count
                = MAX_RETRY_ATTEMPTS
          /\ holding[Delay(MAX_RETRY_ATTEMPTS - 1)][i].delay = 4
    /\ hconf[1].ttl = 1000 /\ hconf[2].ttl = 2000 /\ hconf[4].ttl = 4000

(* Messages waiting in the holding queues *)
HeldMessages ==
    UNION {{holding[d][i] : i \in DOMAIN holding[d]} : d \in HoldingDelays}

(* C27: callback calls send_to_retry_queue only with a retry count below   *)
(* MAX_RETRY_ATTEMPTS; no message in a holding queue or on its way back    *)
(* carries an x-retry-count above MAX_RETRY_ATTEMPTS, and no holding queue *)
(* is declared for a delay above that of attempt MAX_RETRY_ATTEMPTS - 1.   *)
C27_CeilingBeforeEscalation ==
    /\ (last.valid /\ Called("send_to_retry_queue")) =>
          last.retry_count < MAX_RETRY_ATTEMPTS
    /\ \A m \in HeldMessages \cup QueuedMessages :
          m.count <= MAX_RETRY_ATTEMPTS
    /\ \A d \in HoldingDelays :
          hconf[d] # NoQueue => d <= Delay(MAX_RETRY_ATTEMPTS - 1)

(* A delivery with x-retry-count = MAX_RETRY_ATTEMPTS has been handled *)
C27_Witness ==
    /\ last.valid
    /\ last.m.count = MAX_RETRY_ATTEMPTS
    /\ last.processed.ret = "False"
    /\ last.branch = "ceiling"
    /\ hconf[Delay(MAX_RETRY_ATTEMPTS)] = NoQueue

(* C28: with one consumer, a successful escalation of a produced message   *)
(* leaves in retry_queue_<delay>s a copy with x-retry-count one above the  *)
(* incoming count and x-retry-delay = delay, and no delivery of the        *)
(* message carries a lower x-retry-count than an earlier delivery of it    *)
(* (here: than one already recorded in dead_letter_queue).                 *)
C28_MetadataOnEscalation ==
    (last.valid /\ cstate["c2"] = "new" /\ sent[last.m.id].by = "producer") =>
        /\ Called("retry.basic_publish") =>
              \E i \in DOMAIN holding[Delay(last.retry_count)] :
                 LET p == holding[Delay(last.retry_count)][i]
                 IN  /\ p.id = last.m.id
                     /\ p.count = last.retry_count + 1
                     /\ p.delay = Delay(last.retry_count)
        /\ \A k \in DeadBefore : RetryCountOf(dlq[k]) <= last.retry_count

(* C29: every message waiting in a holding queue or in a consumer's queue, *)
(* and every record in dead_letter_queue, has the body its message was     *)
(* first published with; what a delivery publishes to the retry exchange   *)
(* or to the dead-letter exchange has the body of that delivery.           *)
C29_PayloadPreserved ==
    /\ \A m \in HeldMessages \cup QueuedMessages :
          m.body = sent[m.id].msg.body
    /\ \A k \in DOMAIN dlq : dlq[k].body = sent[dlq[k].id].msg.body
    /\ last.valid =>
          /\ \A k \in DOMAIN dlq : k > last.dlqBefore =>
                dlq[k].id = last.m.id /\ dlq[k].body = last.m.body
          /\ Called("retry.basic_publish") =>
                \E p \in HeldMessages :
                   /\ p.id = last.m.id
                   /\ p.count = last.retry_count + 1
                   /\ p.body = last.m.body

(* A produced message has been retried up to the ceiling and its record in *)
(* dead_letter_queue has the produced body                                 *)
C29_Witness ==
    /\ last.valid
    /\ last.branch = "ceiling"
    /\ last.m.count = MAX_RETRY_ATTEMPTS
    /\ sent[last.m.id].by = "producer"
    /\ \E k \in DOMAIN dlq :
          /\ k > last.dlqBefore
          /\ dlq[k].count = MAX_RETRY_ATTEMPTS
          /\ dlq[k].body = json_dumps(sent[last.m.id].text)

(* C30: a delivery for which process_message returns True only calls       *)
(* safe_ack: it publishes nothing, and the exchanges, the holding queues   *)
(* and their contents, dead_letter_queue and its content, and every        *)
(* binding are after the delivery what they were before it.                *)
C30_SuccessNoSideRouting ==
    [][(last'.valid /\ last'.processed.ret = "True") =>
          /\ UNCHANGED <<exchanges, hconf, rbind, holding, dlqDeclared,
                         dlqBind, dlq, bound, retryPublishes>>
          /\ last'.branch = "success"
          /\ last'.rets["safe_ack"] # "none"
          /\ last'.rets["send_to_retry_queue"] = "none"
          /\ last'.rets["send_to_dead_letter_queue"] = "none"
          /\ last'.routed = {}]_vars

(* A delivery has succeeded and been acknowledged while another copy of a  *)
(* message was waiting in a holding queue                                  *)
C30_Witness ==
    /\ last.valid
    /\ last.processed.ret = "True"
    /\ last.branch = "success"
    /\ Called("basic_ack")
    /\ HeldMessages # {}

(* C31: the broker never has more than one delivery to the consumer        *)
(* outstanding, and while callback is handling a delivery that delivery is *)
(* the only one the consumer has received: the next one is sent only       *)
(* after the ack.                                                          *)
C31_OneInFlight ==
    /\ inflight.delivered <= 1
    /\ inflight.handling => inflight.delivered = 1

(* callback is handling a delivery while a second message is ready in the  *)
(* consumer's queue                                                        *)
C31_Witness ==
    /\ inflight.handling
    /\ inflight.delivered = 1
    /\ Len(cqueue["c1"]) >= 2

C33_DrainAcksOnce ==
    \A i \in DOMAIN drain.handled : drain.handled[i].acks = 1

(* A body json.loads cannot parse *)
Malformed(body) == json_loads(body) # "ok"

(* C34: every delivery message_callback was given ended with exactly one   *)
(* ack or nack, and a message that cannot be parsed was not requeued.      *)
C34_SettledOnce ==
    \A i \in DOMAIN cluster_consumer.settled :
       LET d == cluster_consumer.settled[i]
       IN  /\ d.r.acks + d.r.nacks = 1
           /\ Malformed(d.body) => d.r.nacks = 1 /\ ~d.r.requeue

(* The waits the claim names, in order *)
ExpectedSleeps == <<2, 4, 8, 16>>

Min(a, b) == IF a < b THEN a ELSE b

(* C35: a finished ClusterConsumer.connect of which the first `failures`   *)
(* attempts failed has made min(failures + 1, 5) attempts, has slept 2, 4, *)
(* 8, 16 seconds after the first min(failures, 4) of them, and has         *)
(* returned True exactly when fewer than 5 attempts failed.                *)
C35_ConnectBounded ==
    cluster_consumer.connect.valid =>
        LET r == cluster_consumer.connect
        IN  /\ r.attempts <= 5
            /\ r.attempts = Min(r.failures + 1, 5)
            /\ r.sleeps = SubSeq(ExpectedSleeps, 1, Min(r.failures, 4))
            /\ r.ret = (r.failures < 5)
            /\ cluster_consumer.state # "failed" <=> r.ret

(* connect has returned False after five failed attempts and four waits *)
C35_Witness ==
    /\ cluster_consumer.connect.valid
    /\ cluster_consumer.connect.failures = 5
    /\ cluster_consumer.connect.attempts = 5
    /\ Len(cluster_consumer.connect.sleeps) = 4
    /\ cluster_consumer.state = "failed"

IsPublished(e) == e.ev = "published"
IsPublishFailed(e) == e.ev = "publish_failed"

(* The successful publishes of the producer, in order *)
PublishedEvents == SelectSeq(cluster_producer.trace, IsPublished)

(* C36: the calls of send_message that have returned are those for the     *)
(* indexes 0 .. i-1, each of them has exactly one successful publish, in   *)
(* index order, and every failed publish is followed by a reconnect and    *)
(* then by the next publish of the same message.                           *)
C36_PublishWithRetry ==
    /\ cluster_producer.returned =
          [k \in 1..cluster_producer.i |-> k - 1]
    /\ Len(PublishedEvents) = Len(cluster_producer.returned)
    /\ \A k \in DOMAIN PublishedEvents :
          PublishedEvents[k].id = cluster_producer.returned[k]
    /\ \A p \in DOMAIN cluster_producer.trace :
          IsPublishFailed(cluster_producer.trace[p]) =>
             \E q \in DOMAIN cluster_producer.trace :
                /\ q > p + 1
                /\ cluster_producer.trace[q].ev \in
                      {"published", "publish_failed"}
                /\ cluster_producer.trace[q].id = cluster_producer.trace[p].id
                /\ cluster_producer.trace[q - 1].ev = "connected"
                /\ \A k \in (p + 1)..(q - 1) :
                      cluster_producer.trace[k].id = -1

(* send_messages has sent every message, one of them after two failed      *)
(* publishes and a failed reconnect                                        *)
C36_Witness ==
    /\ cluster_producer.i = total
    /\ Len(PublishedEvents) = total
    /\ \E p \in DOMAIN cluster_producer.trace :
          /\ p + 3 \in DOMAIN cluster_producer.trace
          /\ cluster_producer.trace[p] = Event("publish_failed", 1)
          /\ cluster_producer.trace[p + 1].ev = "connection_error"
          /\ cluster_producer.trace[p + 3] = Event("publish_failed", 1)

=============================================================================
